---- MODULE Spec2Model ----
(***************************************************************************)
(* strawberry_django/filters.py: the filter-field type map                 *)
(* (get_filter_field_type / set_filter_field_type), the input-type         *)
(* synthesizer (filter) and the filter applicator (apply_filter), each     *)
(* behind the assert_django_filters_installed decorator.                   *)
(*                                                                         *)
(* Python objects are records with a "tag" field; classes and filter       *)
(* objects that are only compared by identity are strings.                 *)
(***************************************************************************)
EXTENDS Integers, Sequences, FiniteSets, TLC

\* ------------------------------------------------------------- bounds
\* Rules declared, overrides registered and input types built in one run.
MaxOps == 3

\* ------------------------------------------------------------- values
None == [tag |-> "None"]
UNSET == [tag |-> "UNSET"]
EmptyDict == [tag |-> "dict"]
Str(s) == [tag |-> "str", s |-> s]

\* strawberry.arguments.is_unset
is_unset(value) == value.tag = "UNSET"

\* Python truthiness: UNSET, None, an empty container and the empty string
\* are falsy; an input instance and a non-empty string are truthy.
Truthy(value) ==
    /\ value.tag \notin {"UNSET", "None", "dict"}
    /\ value.tag = "str" => value.s # ""

\* typing.Optional[X] and a required X
Optional(of) == [tag |-> "type", optional |-> TRUE, of |-> of]
Required(of) == [tag |-> "type", optional |-> FALSE, of |-> of]

\* ID_TYPE = strawberry.ID
ID_TYPE == "ID"

\* The django_filters classes the module maps at load time.
MappedFilterClasses ==
    {"BooleanFilter", "CharFilter", "ChoiceFilter", "DateFilter",
     "DateTimeFilter", "DurationFilter", "IsoDateTimeFilter",
     "ModelChoiceFilter", "ModelMultipleChoiceFilter",
     "MultipleChoiceFilter", "NumberFilter", "TimeFilter", "UUIDFilter"}

\* Classes: the mapped ones and one the module leaves unmapped.
ClassObjects == MappedFilterClasses \cup {"RangeFilter"}

\* Filter objects (instances of the classes), as get_filters() holds them.
FilterObjects == {"BooleanFilter()", "RangeFilter()"}

\* Python's type(x): the class of a filter object, "type" for a class.
PyType(x) ==
    CASE x = "BooleanFilter()" -> "BooleanFilter"
      [] x = "RangeFilter()" -> "RangeFilter"
      [] OTHER -> "type"

\* Variant: the load-time table with BooleanFilter mapped to a required bool.
filter_field_type_map_default_required ==
    [k \in MappedFilterClasses |->
        CASE k = "BooleanFilter" -> Required("bool")
          [] k = "ModelChoiceFilter" -> Optional(ID_TYPE)
          [] k = "ModelMultipleChoiceFilter" -> Optional("List[ID]")
          [] k = "MultipleChoiceFilter" -> Optional("List[str]")
          [] OTHER -> Optional("str")]

\* The table as the module body builds it.
filter_field_type_map_default ==
    [k \in MappedFilterClasses |->
        CASE k = "BooleanFilter" -> Optional("bool")
          [] k = "ModelChoiceFilter" -> Optional(ID_TYPE)
          [] k = "ModelMultipleChoiceFilter" -> Optional("List[ID]")
          [] k = "MultipleChoiceFilter" -> Optional("List[str]")
          [] OTHER -> Optional("str")]

VARIABLES
    installed,              \* django_filters can be imported
    filter_field_type_map,  \* the module-level dict
    filterset_class,        \* the FilterSet class: its name and rules
    types,                  \* input types returned by filter(), oldest first
    registered,             \* the set_filter_field_type calls that returned
    last                    \* the latest call: arguments and outcome

vars == <<installed, filter_field_type_map, filterset_class, types,
          registered, last>>

\* ------------------------------------------------------------ outcomes
\* What a call did: how it ended, what it returned or raised, the table it
\* left, and the filterset object it built (None if it built none).
Return(value, map) ==
    [outcome |-> "return", msg |-> "", value |-> value, map |-> map,
     filterset |-> None]

Raise(error, msg, map) ==
    [outcome |-> error, msg |-> msg, value |-> None, map |-> map,
     filterset |-> None]

\* Variant: a decorator that runs the function without the import check.
assert_django_filters_installed_skipped(call) == call

\* The decorator: import django_filters or raise, then run the function.
assert_django_filters_installed(call) ==
    IF ~installed
    THEN Raise("ModuleNotFoundError", "You need to install django-filter",
               filter_field_type_map)
    ELSE call

\* -------------------------------------------------------- type mapper
\* Variant: a lookup that falls back to Optional[str] for a missing key.
get_filter_field_type_fn_default(field_type) ==
    IF PyType(field_type) # "type"
    THEN Raise("TypeError", "expected 'type'", filter_field_type_map)
    ELSE IF field_type \in DOMAIN filter_field_type_map
         THEN Return(filter_field_type_map[field_type], filter_field_type_map)
         ELSE Return(Optional("str"), filter_field_type_map)

get_filter_field_type_fn(field_type) ==
    IF PyType(field_type) # "type"
    THEN Raise("TypeError", "expected 'type'", filter_field_type_map)
    ELSE IF field_type \in DOMAIN filter_field_type_map
         THEN Return(filter_field_type_map[field_type], filter_field_type_map)
         ELSE Raise("TypeError", "No type defined for field type",
                    filter_field_type_map)

get_filter_field_type(field_type) ==
    assert_django_filters_installed(get_filter_field_type_fn(field_type))

\* Variant: a register that keeps an entry the table already has (setdefault).
set_filter_field_type_fn_setdefault(field_type, to_type) ==
    IF PyType(field_type) # "type"
    THEN Raise("TypeError", "expected 'type'", filter_field_type_map)
    ELSE Return(None,
                [k \in DOMAIN filter_field_type_map \cup {field_type} |->
                    IF k \in DOMAIN filter_field_type_map
                    THEN filter_field_type_map[k]
                    ELSE to_type])

set_filter_field_type_fn(field_type, to_type) ==
    IF PyType(field_type) # "type"
    THEN Raise("TypeError", "expected 'type'", filter_field_type_map)
    ELSE Return(None,
                [k \in DOMAIN filter_field_type_map \cup {field_type} |->
                    IF k = field_type THEN to_type
                    ELSE filter_field_type_map[k]])

set_filter_field_type(field_type, to_type) ==
    assert_django_filters_installed(set_filter_field_type_fn(field_type, to_type))

\* ------------------------------------------------- filter specification
\* A FilterSet class: get_fields() lists its rule names in order and
\* get_filters() holds one filter object per rule name.
NamePool == <<"a", "b">>

get_fields(fsc) == fsc.fields

get_filters(fsc) == fsc.filters

FiltersetWith(kinds) ==
    [name |-> "ItemFilter",
     fields |-> [i \in 1..Len(kinds) |-> NamePool[i]],
     filters |-> [n \in {NamePool[i] : i \in 1..Len(kinds)} |->
                    kinds[CHOOSE i \in 1..Len(kinds) : NamePool[i] = n]]]

\* ---------------------------------------------------- input synthesizer
\* strawberry.input(cls): the class becomes an input type; its fields are
\* its annotations, each with the class attribute of that name as default.
strawberry_input(cls) == [cls EXCEPT !.tag = "input"]

\* Variant: a loop that gives each field the default None instead of UNSET.
RECURSIVE filter_loop_none_default(_, _, _)
filter_loop_none_default(fsc, i, cls) ==
    IF i > Len(get_fields(fsc))
    THEN Return(strawberry_input(cls), filter_field_type_map)
    ELSE LET field_name == get_fields(fsc)[i]
             filter_field == get_filters(fsc)[field_name]
             field_type == get_filter_field_type(PyType(filter_field))
         IN  IF field_type.outcome # "return"
             THEN field_type
             ELSE filter_loop_none_default(fsc, i + 1,
                    [cls EXCEPT
                        !.annotations = [n \in DOMAIN cls.annotations \cup {field_name} |->
                            IF n = field_name THEN field_type.value
                            ELSE cls.annotations[n]],
                        !.attrs = [n \in DOMAIN cls.attrs \cup {field_name} |->
                            IF n = field_name THEN None ELSE cls.attrs[n]]])

RECURSIVE filter_loop(_, _, _)
filter_loop(fsc, i, cls) ==
    IF i > Len(get_fields(fsc))
    THEN Return(strawberry_input(cls), filter_field_type_map)
    ELSE LET field_name == get_fields(fsc)[i]
             filter_field == get_filters(fsc)[field_name]
             field_type == get_filter_field_type(PyType(filter_field))
         IN  IF field_type.outcome # "return"
             THEN field_type
             ELSE filter_loop(fsc, i + 1,
                    [cls EXCEPT
                        !.annotations = [n \in DOMAIN cls.annotations \cup {field_name} |->
                            IF n = field_name THEN field_type.value
                            ELSE cls.annotations[n]],
                        !.attrs = [n \in DOMAIN cls.attrs \cup {field_name} |->
                            IF n = field_name THEN UNSET ELSE cls.attrs[n]]])

filter_fn(fsc, name) ==
    filter_loop(fsc, 1,
        [tag |-> "class",
         name |-> IF Truthy(name) THEN name ELSE Str(fsc.name),
         annotations |-> <<>>,
         attrs |-> <<>>,
         filterset_class |-> fsc.name])

filter(fsc, name) == assert_django_filters_installed(filter_fn(fsc, name))

\* ----------------------------------------------------- filter applicator
\* getattr(obj, name, default) on an instance of an input type.
getattr(obj, name, default) ==
    IF name \in DOMAIN obj.attrs THEN obj.attrs[name] ELSE default

RECURSIVE extract_data(_, _, _, _)
extract_data(filter_instance, field_names, i, data) ==
    IF i > Len(field_names)
    THEN data
    ELSE LET field_name == field_names[i]
             value == getattr(filter_instance, field_name, None)
         IN  extract_data(filter_instance, field_names, i + 1,
                IF ~is_unset(value)
                THEN [n \in DOMAIN data \cup {field_name} |->
                        IF n = field_name THEN value ELSE data[n]]
                ELSE data)

\* filterset_class(data=..., queryset=...): the filterset object; errors is
\* what its form validation will report for this data.
FilterSet(data, queryset, errors) ==
    [tag |-> "filterset", data |-> data, queryset |-> queryset,
     errors |-> errors, is_valid_calls |-> 0]

\* filterset.is_valid(): no field reported an error.
is_valid(filterset) == DOMAIN filterset.errors = {}

\* filterset.qs: a new queryset object, the given one narrowed by the data.
qs(filterset) ==
    [filterset.queryset EXCEPT !.clone = @ + 1, !.filters = filterset.data]

\* Variant: an invalid filterset falls back to the unfiltered queryset.
apply_filter_body_fallback(filter_instance, queryset, errors) ==
    LET data == extract_data(filter_instance,
                             get_fields(filterset_class), 1, <<>>)
        filterset == [FilterSet(data, queryset, errors)
                         EXCEPT !.is_valid_calls = 1]
    IN  IF ~is_valid(filterset)
        THEN [Return(queryset, filter_field_type_map)
                EXCEPT !.filterset = filterset]
        ELSE [Return(qs(filterset), filter_field_type_map)
                EXCEPT !.filterset = filterset]

\* Variant: a valid filterset is checked but the given queryset is returned.
apply_filter_body_same_queryset(filter_instance, queryset, errors) ==
    LET data == extract_data(filter_instance,
                             get_fields(filterset_class), 1, <<>>)
        filterset == [FilterSet(data, queryset, errors)
                         EXCEPT !.is_valid_calls = 1]
    IN  IF ~is_valid(filterset)
        THEN [Raise("FilterSetError", "", filter_field_type_map)
                EXCEPT !.value = [tag |-> "errors", errors |-> filterset.errors],
                       !.filterset = filterset]
        ELSE [Return(queryset, filter_field_type_map)
                EXCEPT !.filterset = filterset]

\* Lines 111-125: extract the set fields, build the filterset, validate.
apply_filter_body(filter_instance, queryset, errors) ==
    LET data == extract_data(filter_instance,
                             get_fields(filterset_class), 1, <<>>)
        filterset == [FilterSet(data, queryset, errors)
                         EXCEPT !.is_valid_calls = 1]
    IN  IF ~is_valid(filterset)
        THEN [Raise("FilterSetError", "", filter_field_type_map)
                EXCEPT !.value = [tag |-> "errors", errors |-> filterset.errors],
                       !.filterset = filterset]
        ELSE [Return(qs(filterset), filter_field_type_map)
                EXCEPT !.filterset = filterset]

\* Variant: only UNSET short-circuits; other falsy values reach the
\* attribute access filter_instance.filterset_class.
apply_filter_fn_unset_only(filter_instance, queryset, errors) ==
    IF is_unset(filter_instance)
    THEN Return(queryset, filter_field_type_map)
    ELSE IF filter_instance.tag # "instance"
         THEN Raise("AttributeError", "filterset_class", filter_field_type_map)
         ELSE apply_filter_body(filter_instance, queryset, errors)

apply_filter_fn(filter_instance, queryset, errors) ==
    IF is_unset(filter_instance) \/ ~Truthy(filter_instance)
    THEN Return(queryset, filter_field_type_map)
    ELSE apply_filter_body(filter_instance, queryset, errors)

apply_filter(filter_instance, queryset, errors) ==
    assert_django_filters_installed(apply_filter_fn(filter_instance, queryset, errors))

\* ------------------------------------------------------------- inputs
FieldTypeArgs == {"BooleanFilter", "NumberFilter", "RangeFilter", "BooleanFilter()"}
RegisterFieldTypeArgs == {"BooleanFilter", "RangeFilter", "BooleanFilter()"}
ToTypeArgs == {Optional("int"), Required("bool")}

NameArgs == {None, Str(""), Str("ItemInput")}
Values == {UNSET, None, Str("x")}
Querysets == {[tag |-> "queryset", name |-> n, clone |-> 0, filters |-> <<>>] :
                n \in {"q1", "q2"}}
InitialFiltersets == {FiltersetWith(<<>>)} \cup
                     {FiltersetWith(<<k>>) : k \in FilterObjects} \cup
                     {FiltersetWith(<<k, l>>) : k, l \in FilterObjects}

\* The instances a caller can build from the input types made so far, and
\* the values that stand for "no filter given".
FilterInstances ==
    {UNSET, None, EmptyDict} \cup
    UNION {{[tag |-> "instance", cls |-> types[i], attrs |-> a] :
                a \in [DOMAIN types[i].annotations -> Values]} :
           i \in 1..Len(types)}

\* The error reports form validation can give: a message per failing field.
ErrorReports ==
    UNION {[S -> {"invalid"}] :
           S \in SUBSET {get_fields(filterset_class)[i] :
                            i \in 1..Len(get_fields(filterset_class))}}

NoArgs == [tag |-> "none"]

\* What the run has built so far; the state-growing calls stop at MaxOps.
Size == Len(registered) + Len(types) + Len(get_fields(filterset_class))

Init ==
    /\ installed \in BOOLEAN
    /\ filter_field_type_map = filter_field_type_map_default
    /\ filterset_class \in InitialFiltersets
    /\ types = <<>>
    /\ registered = <<>>
    /\ last = [op |-> "load", args |-> NoArgs] @@ Return(None, filter_field_type_map_default)

Lookup ==
    \E field_type \in FieldTypeArgs :
        LET r == get_filter_field_type(field_type) IN
        /\ last' = [op |-> "lookup", args |-> [field_type |-> field_type]] @@ r
        /\ filter_field_type_map' = r.map
        /\ UNCHANGED <<installed, filterset_class, types, registered>>

Register ==
    /\ Size < MaxOps
    /\ \E field_type \in RegisterFieldTypeArgs, to_type \in ToTypeArgs :
        LET r == set_filter_field_type(field_type, to_type) IN
        /\ last' = [op |-> "register",
                    args |-> [field_type |-> field_type, to_type |-> to_type]] @@ r
        /\ filter_field_type_map' = r.map
        /\ registered' = IF r.outcome = "return"
                         THEN Append(registered, [field_type |-> field_type,
                                                  to_type |-> to_type])
                         ELSE registered
        /\ UNCHANGED <<installed, filterset_class, types>>

Synthesize ==
    /\ Size < MaxOps
    /\ \E name \in NameArgs :
        LET r == filter(filterset_class, name) IN
        /\ last' = [op |-> "synthesize", args |-> [name |-> name]] @@ r
        /\ filter_field_type_map' = r.map
        /\ types' = IF r.outcome = "return" THEN Append(types, r.value) ELSE types
        /\ UNCHANGED <<installed, filterset_class, registered>>

Apply ==
    \E filter_instance \in FilterInstances, queryset \in Querysets,
       errors \in ErrorReports :
        LET r == apply_filter(filter_instance, queryset, errors) IN
        /\ last' = [op |-> "apply",
                    args |-> [filter_instance |-> filter_instance,
                              queryset |-> queryset,
                              errors |-> errors]] @@ r
        /\ filter_field_type_map' = r.map
        /\ UNCHANGED <<installed, filterset_class, types, registered>>

\* The filterset class gains a rule after it was declared.
AddRule ==
    /\ Size < MaxOps
    /\ Len(get_fields(filterset_class)) < Len(NamePool)
    /\ \E k \in FilterObjects :
        LET n == NamePool[Len(get_fields(filterset_class)) + 1] IN
        /\ filterset_class' =
              [filterset_class EXCEPT
                 !.fields = Append(@, n),
                 !.filters = [m \in DOMAIN @ \cup {n} |->
                                IF m = n THEN k ELSE @[m]]]
        /\ last' = [op |-> "add_rule", args |-> NoArgs] @@
                   Return(None, filter_field_type_map)
        /\ UNCHANGED <<installed, filter_field_type_map, types, registered>>

Next == Lookup \/ Register \/ Synthesize \/ Apply \/ AddRule

Spec == Init /\ [][Next]_vars

\* --------------------------------------------------------------- claims
RuleNames == {get_fields(filterset_class)[i] :
                i \in 1..Len(get_fields(filterset_class))}

RegisteredFor(k) == {i \in 1..Len(registered) : registered[i].field_type = k}

LatestRegistered(k) ==
    registered[CHOOSE i \in RegisteredFor(k) :
                   \A j \in RegisteredFor(k) : j <= i].to_type

AppliedInstance ==
    /\ installed
    /\ last.op = "apply"
    /\ last.args.filter_instance.tag = "instance"

\* C1: a lookup of kind k returns the type of the latest register call for
\* k, whatever was registered for k before or for other kinds since, and
\* the load-time type of k when no register call named k.
C1_LookupReturnsLatest ==
    installed =>
        \A k \in FieldTypeArgs \cap ClassObjects :
            /\ RegisteredFor(k) # {} =>
                 /\ get_filter_field_type(k).outcome = "return"
                 /\ get_filter_field_type(k).value = LatestRegistered(k)
            /\ (RegisteredFor(k) = {} /\ k \in MappedFilterClasses) =>
                 /\ get_filter_field_type(k).outcome = "return"
                 /\ get_filter_field_type(k).value = filter_field_type_map_default[k]
            /\ (last.op = "lookup" /\ last.args.field_type = k
                    /\ last.outcome = "return") =>
                 last.value = IF RegisteredFor(k) # {} THEN LatestRegistered(k)
                              ELSE filter_field_type_map_default[k]

C1_Witness ==
    /\ last.op = "lookup"
    /\ last.outcome = "return"
    /\ Cardinality(RegisteredFor(last.args.field_type)) = 2
    /\ registered[1].to_type # registered[2].to_type
    /\ last.value = registered[2].to_type

\* C2 as stated: for every argument that is not one of the recognized
\* filter-rule kinds, lookup and register both fail with TypeError and the
\* table stays as it was.
C2_UnknownKindBothFail ==
    [][(/\ installed
        /\ last'.op \in {"lookup", "register"}
        /\ last'.args.field_type \notin MappedFilterClasses)
          => /\ last'.outcome = "TypeError"
             /\ filter_field_type_map' = filter_field_type_map
    ]_vars

\* C2 amended: an argument that is not a class makes lookup and register
\* fail with TypeError, the table untouched; a class without an entry makes
\* lookup fail with TypeError (no default is returned), while register of
\* such a class returns and inserts the entry.
C2_NonClassFailsUnmappedInserts ==
    [][installed =>
        /\ (last'.op \in {"lookup", "register"}
                /\ PyType(last'.args.field_type) # "type") =>
             /\ last'.outcome = "TypeError"
             /\ last'.value = None
             /\ filter_field_type_map' = filter_field_type_map
        /\ (last'.op = "lookup"
                /\ last'.args.field_type \notin DOMAIN filter_field_type_map) =>
             /\ last'.outcome = "TypeError"
             /\ last'.value = None
             /\ filter_field_type_map' = filter_field_type_map
        /\ (last'.op = "register"
                /\ PyType(last'.args.field_type) = "type"
                /\ last'.args.field_type \notin DOMAIN filter_field_type_map) =>
             /\ last'.outcome = "return"
             /\ DOMAIN filter_field_type_map' =
                    DOMAIN filter_field_type_map \cup {last'.args.field_type}
             /\ filter_field_type_map'[last'.args.field_type] = last'.args.to_type
    ]_vars

C2_Witness ==
    /\ installed
    /\ last.op = "register"
    /\ last.outcome = "TypeError"
    /\ PyType(last.args.field_type) # "type"
    /\ Len(registered) = 1
    /\ registered[1].field_type = "RangeFilter"

\* C3: filter() on a class whose rules all have mapped kinds returns an
\* input type with one field per rule name and no other, each annotated
\* with the table's type for the rule's filter class and defaulting to
\* UNSET; with an unmapped kind it raises TypeError and returns no type.
\* Either way the filterset class and the table are left as they were.
C3_SynthesisProjectsRules ==
    [][(installed /\ last'.op = "synthesize") =>
        /\ filterset_class' = filterset_class
        /\ filter_field_type_map' = filter_field_type_map
        /\ IF \A n \in RuleNames :
                PyType(get_filters(filterset_class)[n])
                    \in DOMAIN filter_field_type_map
           THEN /\ last'.outcome = "return"
                /\ types' = Append(types, last'.value)
                /\ last'.value.tag = "input"
                /\ last'.value.name =
                     IF last'.args.name \in {None, Str("")}
                     THEN Str(filterset_class.name) ELSE last'.args.name
                /\ last'.value.filterset_class = filterset_class.name
                /\ DOMAIN last'.value.annotations = RuleNames
                /\ DOMAIN last'.value.attrs = RuleNames
                /\ \A n \in RuleNames :
                     /\ last'.value.annotations[n] =
                          filter_field_type_map[PyType(get_filters(filterset_class)[n])]
                     /\ last'.value.attrs[n] = UNSET
           ELSE /\ last'.outcome = "TypeError"
                /\ last'.value = None
                /\ types' = types
    ]_vars

C3_Witness ==
    /\ installed
    /\ last.op = "synthesize"
    /\ last.outcome = "return"
    /\ Len(registered) = 1
    /\ registered[1].field_type = "RangeFilter"
    /\ RuleNames = {"a"}
    /\ get_filters(filterset_class)["a"] = "RangeFilter()"
    /\ DOMAIN last.value.annotations = {"a"}
    /\ last.value.annotations["a"] = registered[1].to_type
    /\ last.value.attrs["a"] = UNSET

C3_WitnessUnmapped ==
    /\ installed
    /\ last.op = "synthesize"
    /\ last.outcome = "TypeError"

\* C4: apply_filter given UNSET or any falsy value returns the queryset it
\* was given, builds no filterset, runs no validity check and leaves the
\* table as it was.
C4_NoFilterPassthrough ==
    [][(/\ installed
        /\ last'.op = "apply"
        /\ \/ is_unset(last'.args.filter_instance)
           \/ ~Truthy(last'.args.filter_instance)) =>
        /\ last'.outcome = "return"
        /\ last'.value = last'.args.queryset
        /\ last'.value \in Querysets
        /\ last'.filterset = None
        /\ filter_field_type_map' = filter_field_type_map
    ]_vars

C4_Witness ==
    /\ installed
    /\ last.op = "apply"
    /\ last.args.filter_instance = None
    /\ last.outcome = "return"
    /\ last.args.errors # <<>>
    /\ types # <<>>

\* C5 as stated: the data handed to the filterset has as keys exactly the
\* rule names whose value on the instance is not UNSET, each with the
\* instance's value.
C5_DataIsSetFields ==
    AppliedInstance =>
        LET inst == last.args.filter_instance
            data == last.filterset.data IN
        /\ DOMAIN data = {n \in RuleNames :
                            n \in DOMAIN inst.attrs /\ ~is_unset(inst.attrs[n])}
        /\ \A n \in DOMAIN data : n \in DOMAIN inst.attrs /\ data[n] = inst.attrs[n]

\* C6: when the validity check reports errors, apply_filter raises
\* FilterSetError carrying exactly the reported errors and returns no
\* queryset, neither the given one nor a filtered one.
C6_InvalidFailsWhole ==
    (AppliedInstance /\ last.args.errors # <<>>) =>
        /\ last.outcome = "FilterSetError"
        /\ last.value = [tag |-> "errors", errors |-> last.args.errors]
        /\ last.filterset.is_valid_calls = 1

C6_Witness ==
    /\ AppliedInstance
    /\ last.outcome = "FilterSetError"
    /\ DOMAIN last.args.errors = {"a"}
    /\ DOMAIN last.filterset.data = {"a", "b"}

\* C7: when the validity check passes, apply_filter returns the qs of the
\* filterset built from the extracted data and the given queryset: a new
\* object, not the given queryset, also when no field was set.
C7_ValidReturnsValidatorQs ==
    (AppliedInstance /\ last.args.errors = <<>>) =>
        /\ last.outcome = "return"
        /\ last.filterset.tag = "filterset"
        /\ last.filterset.queryset = last.args.queryset
        /\ last.filterset.data =
             extract_data(last.args.filter_instance,
                          get_fields(filterset_class), 1, <<>>)
        /\ last.filterset.is_valid_calls = 1
        /\ last.value = qs(last.filterset)
        /\ last.value # last.args.queryset

C7_Witness ==
    /\ AppliedInstance
    /\ last.outcome = "return"
    /\ last.filterset.data = <<>>
    /\ RuleNames # {}
    /\ last.value.filters = last.args.queryset.filters
    /\ last.value # last.args.queryset

\* C8: without django_filters every entry point raises the
\* ModuleNotFoundError for every argument, and nothing else happens: the
\* table keeps its load-time content, no input type and no filterset is
\* built.
C8_MissingDependencyFailsFirst ==
    ~installed =>
        /\ last.op \in {"lookup", "register", "apply", "synthesize"} =>
             /\ last.outcome = "ModuleNotFoundError"
             /\ last.value = None
             /\ last.filterset = None
        /\ filter_field_type_map = filter_field_type_map_default
        /\ registered = <<>>
        /\ types = <<>>
        /\ \A k \in FieldTypeArgs, t \in ToTypeArgs :
             /\ get_filter_field_type(k).outcome = "ModuleNotFoundError"
             /\ set_filter_field_type(k, t).outcome = "ModuleNotFoundError"
             /\ set_filter_field_type(k, t).map = filter_field_type_map
        /\ \A n \in NameArgs :
             filter(filterset_class, n).outcome = "ModuleNotFoundError"
        /\ \A f \in FilterInstances, q \in Querysets, e \in ErrorReports :
             /\ apply_filter(f, q, e).outcome = "ModuleNotFoundError"
             /\ apply_filter(f, q, e).filterset = None

C8_Witness ==
    /\ ~installed
    /\ last.op = "register"
    /\ PyType(last.args.field_type) # "type"
    /\ last.outcome = "ModuleNotFoundError"

\* C9 as stated: every entry of the table is a nullable type in every
\* state that lookups and register calls can reach.
C9_TableAlwaysNullable ==
    \A k \in DOMAIN filter_field_type_map : filter_field_type_map[k].optional

\* C9 amended: every load-time entry is nullable and stays so until a
\* register call names its kind; register stores the type it is given
\* unchecked, so an entry is a required type exactly when the latest
\* register call for its kind passed a required type.
C9_NullableUnlessRegisteredRequired ==
    /\ \A k \in MappedFilterClasses : filter_field_type_map_default[k].optional
    /\ \A k \in DOMAIN filter_field_type_map :
         ~filter_field_type_map[k].optional <=>
            (RegisteredFor(k) # {} /\ ~LatestRegistered(k).optional)

C9_Witness ==
    /\ last.op = "lookup"
    /\ last.outcome = "return"
    /\ ~last.value.optional
    /\ \E k \in DOMAIN filter_field_type_map :
         k # last.args.field_type /\ RegisteredFor(k) # {}
            /\ filter_field_type_map[k].optional

\* C10 as stated: a rule name of the filterset class for which the
\* instance has no attribute is left out of the data handed to the
\* filterset; it is never passed as None.
C10_MissingAttributeOmitted ==
    AppliedInstance =>
        \A n \in RuleNames :
            n \notin DOMAIN last.args.filter_instance.attrs
                => n \notin DOMAIN last.filterset.data
====
